---- MODULE Spec2Model ----
(***************************************************************************)
(* A model of c_src/mac/keyio_mac.cpp: the macOS key capture / injection   *)
(* bridge.  Two program threads (the caller of grab_kb / send_key /        *)
(* release_kb and the monitor thread running monitor_kb), one consumer of  *)
(* wait_key, and the operating system (device attach / detach, input       *)
(* values, results of system calls).                                       *)
(***************************************************************************)
EXTENDS Integers, Sequences, FiniteSets, TLC

(***************************************************************************)
(* Bounds of the model.                                                    *)
(***************************************************************************)
\* usages run over 1..MaxUsage
MaxUsage == 2
\* send_key calls in one behaviour
MaxSends == 3
\* grab/release cycles (monitor threads spawned) in one behaviour
MaxCycles == 1
\* grab/release cycles in the behaviours that grab again after a release
MaxRegrabs == 2
\* input values delivered to input_callback per grab/release cycle
MaxEvents == 3
\* records the pipe buffers before write() blocks
PipeCap == 2

(***************************************************************************)
(* Program constants.                                                      *)
(***************************************************************************)
KERN_SUCCESS == 0
\* any kern_return_t other than KERN_SUCCESS
KERN_FAILURE == 5
\* sizeof(struct KeyEvent): uint64_t + 2 * uint32_t
SizeofKeyEvent == 16

(***************************************************************************)
(* struct KeyEvent.  type is a uint64_t: 0 = up, 1 = down, anything else   *)
(* is invalid (2 stands for those).  page is the IOKit usage page, named   *)
(* by the enumerators send_key compares it with; "generic_desktop" stands  *)
(* for the pages send_key does not know.                                   *)
(***************************************************************************)
Types == 0..2
RecognizedPages == {"keyboard_or_keypad", "apple_vendor_top_case",
                    "apple_vendor_keyboard", "consumer"}
Pages == RecognizedPages \cup {"generic_desktop"}
Usages == 1..MaxUsage
KeyEvent == [type : Types, page : Pages, usage : Usages]

\* the four report objects, lines 32-35
Categories == {"keyboard", "top_case", "apple_keyboard", "consumer"}

NoReport == [category |-> "none", keys |-> {}]

VARIABLES
    keys,           \* keys[c]: the set <report c>.keys, c in Categories
    lastSend,       \* the last send_key call: event, return value, sink status,
                    \* report posted, and the key sets before the call (pre)
    nsend           \* number of send_key calls so far

sendVars == <<keys, lastSend, nsend>>

VARIABLES
    \* the globals of lines 30-44
    connect,        \* 0 = IO_OBJECT_NULL, 1 = the port IOServiceOpen returned
    service,        \* 0 = none, 1 = the service IOServiceGetMatchingService returned
    thread,         \* TRUE iff thread.joinable()
    listener_loop,  \* 0 = NULL, c = the run loop of the monitor thread of cycle c
    source_device,  \* io_service_t -> IOHIDDeviceRef; a handle is <<device, cycle>>
    fd,             \* <<fd[0], fd[1]>>
    prod,           \* [st : {"null", "valid", "freed"}, str : the filter]
    \* the caller thread and the consumer of wait_key
    cpc,            \* "idle", "join" (in thread.join()) or "crashed"
    callRet,        \* the last grab_kb / release_kb call that returned
    kpc,            \* "idle", "reading" (blocked in read) or "woken"
    lastWait,       \* the last wait_key return: read()'s count and the result
    \* the monitor thread
    cyc,            \* number of monitor threads spawned so far
    mpc,            \* position in monitor_kb
    mprod,          \* monitor_kb's argument product (0 = NULL)
    stopped,        \* the run loop was told to stop
    pending,        \* the record input_callback is blocked writing, or <<>>
    \* the operating system
    fdtab,          \* descriptor -> "std", "free", "pipe_r" or "pipe_w"
    pipe,           \* the records buffered in the pipe
    dstate,         \* device -> "absent", "attached" or "terminated"
    matchedArmed,   \* the 'matched' notification is armed
    termArmed,      \* the 'terminated' notification is armed
    matchedPending, \* devices waiting in the 'matched' iterator
    termPending,    \* devices waiting in the 'terminated' iterator
    seized,         \* handles IOHIDDeviceOpen succeeded on and nothing closed
    scheduled,      \* handles scheduled with a run loop
    connOpen,       \* the connection to the virtual HID service is open
    svcHeld,        \* the service reference is held
    \* history
    openFailed,     \* handles IOHIDDeviceOpen failed on
    closeCalled,    \* handles IOHIDDeviceClose was called on
    reported,       \* devices a 'terminated' iterator has handed to the program
    iterated,       \* devices the loop of open_matching_devices went over in this cycle
    delivered,      \* records handed to input_callback in this cycle
    received        \* records wait_key returned in this cycle

progVars == <<connect, service, thread, listener_loop, source_device, fd, prod>>
callerVars == <<cpc, callRet>>
consumerVars == <<kpc, lastWait>>
monVars == <<cyc, mpc, mprod, stopped, pending>>
sinkVars == <<connOpen, svcHeld>>
osVars == <<fdtab, pipe, dstate, matchedArmed, termArmed, matchedPending,
            termPending, seized, scheduled>>
histVars == <<openFailed, closeCalled, reported, iterated, delivered, received>>

lifeVars == <<progVars, callerVars, consumerVars, monVars, sinkVars, osVars, histVars>>

vars == <<sendVars, lifeVars>>

\* a slip in send_key<T>: key-up clears the whole set
send_key_T_clear(k, e, status) ==
    IF e.type = 1
    THEN [keys |-> k \cup {e.usage}, posted |-> TRUE, ret |-> status]
    ELSE IF e.type = 0
    THEN [keys |-> {}, posted |-> TRUE, ret |-> status]
    ELSE [keys |-> k, posted |-> FALSE, ret |-> 1]

\* a slip in send_key<T>: no check of type, anything but 1 is a key-up
send_key_T_unchecked(k, e, status) ==
    IF e.type = 1
    THEN [keys |-> k \cup {e.usage}, posted |-> TRUE, ret |-> status]
    ELSE [keys |-> k \ {e.usage}, posted |-> TRUE, ret |-> status]

\* a slip in send_key<T>: key-down toggles the usage
send_key_T_toggle(k, e, status) ==
    IF e.type = 1
    THEN [keys |-> IF e.usage \in k THEN k \ {e.usage} ELSE k \cup {e.usage},
          posted |-> TRUE, ret |-> status]
    ELSE IF e.type = 0
    THEN [keys |-> k \ {e.usage}, posted |-> TRUE, ret |-> status]
    ELSE [keys |-> k, posted |-> FALSE, ret |-> 1]

(***************************************************************************)
(* send_key<T>(keyboard, e), lines 142-148.  status is what                *)
(* post_keyboard_input_report returns for this call.                       *)
(***************************************************************************)
send_key_T(k, e, status) ==
    IF e.type = 1
    THEN [keys |-> k \cup {e.usage}, posted |-> TRUE, ret |-> status]
    ELSE IF e.type = 0
    THEN [keys |-> k \ {e.usage}, posted |-> TRUE, ret |-> status]
    ELSE [keys |-> k, posted |-> FALSE, ret |-> 1]

\* the if / else-if chain of send_key, lines 156-166: the report object a page selects
CategoryOf(page) ==
    IF page = "keyboard_or_keypad" THEN "keyboard"
    ELSE IF page = "apple_vendor_top_case" THEN "top_case"
    ELSE IF page = "apple_vendor_keyboard" THEN "apple_keyboard"
    ELSE IF page = "consumer" THEN "consumer"
    ELSE "none"

\* the process has not died
Alive == cpc # "crashed"

\* a slip in send_key: the consumer page is served from the keyboard report
send_key_sharedReport(e, status) ==
    LET c == CategoryOf(e.page)
        t == IF c = "consumer" THEN "keyboard" ELSE c
    IN
    /\ nsend < MaxSends
    /\ nsend' = nsend + 1
    /\ IF c = "none"
       THEN /\ keys' = keys
            /\ lastSend' = [e |-> e, ret |-> 1, posted |-> FALSE,
                            status |-> status, report |-> NoReport,
                            pre |-> keys]
       ELSE LET r == send_key_T(keys[t], e, status) IN
            /\ keys' = [keys EXCEPT ![t] = r.keys]
            /\ lastSend' = [e |-> e, ret |-> r.ret, posted |-> r.posted,
                            status |-> status,
                            report |-> IF r.posted
                                       THEN [category |-> t, keys |-> r.keys]
                                       ELSE NoReport,
                            pre |-> keys]

\* extern "C" send_key(e), lines 155-167
send_key(e, status) ==
    LET c == CategoryOf(e.page) IN
    /\ nsend < MaxSends
    /\ nsend' = nsend + 1
    /\ IF c = "none"
       THEN /\ keys' = keys
            /\ lastSend' = [e |-> e, ret |-> 1, posted |-> FALSE,
                            status |-> status, report |-> NoReport,
                            pre |-> keys]
       ELSE LET r == send_key_T(keys[c], e, status) IN
            /\ keys' = [keys EXCEPT ![c] = r.keys]
            /\ lastSend' = [e |-> e, ret |-> r.ret, posted |-> r.posted,
                            status |-> status,
                            report |-> IF r.posted
                                       THEN [category |-> c, keys |-> r.keys]
                                       ELSE NoReport,
                            pre |-> keys]

SendKey ==
    /\ Alive
    /\ \E e \in KeyEvent : \E status \in {KERN_SUCCESS, KERN_FAILURE} :
          send_key(e, status)
    /\ UNCHANGED lifeVars

\* send_key(e) called by the caller thread between its other calls, for the
\* events of a set; a post to a connection that is not open fails
Send(events) ==
    /\ Alive
    /\ cpc = "idle"
    /\ \E e \in events :
       \E status \in (IF connOpen THEN {KERN_SUCCESS, KERN_FAILURE}
                                   ELSE {KERN_FAILURE}) :
          send_key(e, status)
    /\ UNCHANGED lifeVars

InitSend ==
    /\ keys = [c \in Categories |-> {}]
    /\ lastSend = [e |-> [type |-> 2, page |-> "generic_desktop", usage |-> 1],
                   ret |-> 1, posted |-> FALSE, status |-> KERN_SUCCESS,
                   report |-> NoReport, pre |-> [c \in Categories |-> {}]]
    /\ nsend = 0

(***************************************************************************)
(* The operating system's devices.  Every device of Devs is of the         *)
(* keyboard class monitor_kb matches on; DevName(d) is its                 *)
(* kIOHIDProductKey property, NoName when it has none.                     *)
(***************************************************************************)
Devs == {1, 2, 3, 4}
NULL == "NULL"
NoName == "<no product>"
\* what a freed filter string may read as, besides its old contents
Garbage == "<freed memory>"
\* line 83
Karabiner == "Karabiner VirtualHIDKeyboard"
\* a keyboard named "A", the virtual keyboard, a keyboard without a product
\* name, a keyboard named "B"
ProductNames == <<"A", Karabiner, NoName, "B">>
DevName(d) == ProductNames[d]
\* the product filters grab_kb is called with
Filters == {NULL, "A", "B"}

\* the values the devices send: key down and key up of one key
InputValues == {[type |-> 1, page |-> "keyboard_or_keypad", usage |-> 1],
                [type |-> 0, page |-> "keyboard_or_keypad", usage |-> 1]}

FdNums == 0..4
\* errno after a failed pipe(): EMFILE
EMFILE == 24

Handle(d, c) == <<d, c>>
Handles(S, c) == {Handle(d, c) : d \in S}
Registered == {source_device[d] : d \in DOMAIN source_device}
Attached == {d \in Devs : dstate[d] = "attached"}
Terminated == {d \in Devs : dstate[d] = "terminated"}

Returned(op, ret, stage, failed) ==
    [op |-> op, ret |-> ret, stage |-> stage, failed |-> failed]

\* a slip in the matcher: no test against the virtual device's name
Match_noSelfTest(product, name) ==
    IF product # NULL THEN name = product ELSE TRUE

\* lines 97-100: bool match
Match(product, name) ==
    LET match == (name # Karabiner) IN
    IF product # NULL THEN match /\ (name = product) ELSE match

\* the devices of iter the loop of lines 91-111 goes on to open: those whose
\* product name can be read (lines 92-96) and matches (line 102)
Matching(product, iter) ==
    {d \in iter : DevName(d) # NoName /\ Match(product, DevName(d))}

(***************************************************************************)
(* open_matching_devices(product, iter), lines 72-116.  F is the set of    *)
(* matching devices on which IOHIDDeviceOpen fails: the failure is         *)
(* printed, and the handle stays in source_device and is scheduled.        *)
(***************************************************************************)
open_matching_devices(product, iter) ==
    LET M == Matching(product, iter) IN
    \E F \in SUBSET M :
        /\ source_device' = [d \in (DOMAIN source_device) \cup M |->
                                IF d \in M THEN Handle(d, cyc) ELSE source_device[d]]
        /\ scheduled' = scheduled \cup Handles(M, cyc)
        /\ seized' = seized \cup Handles(M \ F, cyc)
        /\ openFailed' = openFailed \cup Handles(F, cyc)
        /\ iterated' = iterated \cup iter

(***************************************************************************)
(* monitor_kb(product), lines 182-243, on the monitor thread.              *)
(***************************************************************************)
\* lines 184-209: build the matching dictionary, enumerate the attached
\* keyboards, take the thread's run loop, open the matching devices
MonStart ==
    /\ Alive
    /\ mpc = "start"
    /\ \/ \* IOServiceMatching or IOServiceGetMatchingServices fails: return
          /\ mpc' = "done"
          /\ UNCHANGED <<listener_loop, source_device, scheduled, seized, openFailed,
                         iterated>>
       \/ /\ listener_loop' = cyc
          /\ open_matching_devices(mprod, Attached)
          /\ mpc' = "arm_matched"
    /\ UNCHANGED <<sendVars, connect, service, thread, fd, prod, callerVars,
                   consumerVars, cyc, mprod, stopped, pending, sinkVars, fdtab,
                   pipe, dstate, matchedArmed, termArmed, matchedPending,
                   termPending, closeCalled, reported, delivered, received>>

\* lines 210-224: subscribe to 'matched'; the iterator it returns holds the
\* keyboards attached so far and is emptied without opening any of them
MonArmMatched ==
    /\ Alive
    /\ mpc = "arm_matched"
    /\ \/ \* IOServiceAddMatchingNotification fails: return (line 222)
          /\ mpc' = "done"
          /\ UNCHANGED matchedArmed
       \/ /\ matchedArmed' = TRUE
          /\ mpc' = "arm_term"
    /\ UNCHANGED <<sendVars, progVars, callerVars, consumerVars, cyc, mprod,
                   stopped, pending, sinkVars, fdtab, pipe, dstate, termArmed,
                   matchedPending, termPending, seized, scheduled, histVars>>

\* lines 225-236: subscribe to 'terminated'; the iterator it returns holds
\* none or all of the devices terminated so far and is emptied without
\* erasing; then CFRunLoopRun is entered
MonArmTerm ==
    /\ Alive
    /\ mpc = "arm_term"
    /\ \/ \* IOServiceAddMatchingNotification fails: return (line 233)
          /\ mpc' = "done"
          /\ UNCHANGED <<termArmed, reported>>
       \/ /\ termArmed' = TRUE
          /\ \E I \in {{}, Terminated} : reported' = reported \cup I
          /\ mpc' = "run"
    /\ UNCHANGED <<sendVars, progVars, callerVars, consumerVars, cyc, mprod,
                   stopped, pending, sinkVars, fdtab, pipe, dstate, matchedArmed,
                   matchedPending, termPending, seized, scheduled, openFailed,
                   closeCalled, iterated, delivered, received>>

\* matched_callback, lines 123-126, run by the run loop
matched_callback ==
    /\ Alive
    /\ mpc = "run"
    /\ ~stopped
    /\ matchedPending # {}
    /\ open_matching_devices(mprod, matchedPending)
    /\ matchedPending' = {}
    /\ UNCHANGED <<sendVars, connect, service, thread, listener_loop, fd, prod,
                   callerVars, consumerVars, monVars, sinkVars, fdtab, pipe,
                   dstate, matchedArmed, termArmed, termPending, closeCalled,
                   reported, delivered, received>>

\* a slip in terminated_callback: the registry is cleared
terminated_callback_clears ==
    /\ Alive
    /\ mpc = "run"
    /\ ~stopped
    /\ termPending # {}
    /\ source_device' = <<>>
    /\ reported' = reported \cup termPending
    /\ termPending' = {}
    /\ UNCHANGED <<sendVars, connect, service, thread, listener_loop, fd, prod,
                   callerVars, consumerVars, monVars, sinkVars, fdtab, pipe,
                   dstate, matchedArmed, termArmed, matchedPending, seized,
                   scheduled, openFailed, closeCalled, iterated, delivered,
                   received>>

\* terminated_callback, lines 133-137, run by the run loop
terminated_callback ==
    /\ Alive
    /\ mpc = "run"
    /\ ~stopped
    /\ termPending # {}
    /\ source_device' = [d \in (DOMAIN source_device) \ termPending |-> source_device[d]]
    /\ reported' = reported \cup termPending
    /\ termPending' = {}
    /\ UNCHANGED <<sendVars, connect, service, thread, listener_loop, fd, prod,
                   callerVars, consumerVars, monVars, sinkVars, fdtab, pipe,
                   dstate, matchedArmed, termArmed, matchedPending, seized,
                   scheduled, openFailed, closeCalled, iterated, delivered,
                   received>>

\* a slip in input_callback: a write that does not block, so that a record
\* finding the pipe full is dropped
input_callback_drop(d, v) ==
    /\ Alive
    /\ mpc = "run"
    /\ ~stopped
    /\ dstate[d] = "attached"
    /\ Handle(d, cyc) \in seized \cap scheduled
    /\ Len(delivered) < MaxEvents
    /\ delivered' = Append(delivered, v)
    /\ pipe' = IF fdtab[fd[2]] = "pipe_w" /\ Len(pipe) < PipeCap
               THEN Append(pipe, v) ELSE pipe
    /\ UNCHANGED <<sendVars, progVars, callerVars, consumerVars, monVars,
                   sinkVars, fdtab, dstate, matchedArmed, termArmed,
                   matchedPending, termPending, seized, scheduled, openFailed,
                   closeCalled, reported, iterated, received>>

\* input_callback, lines 63-70, run by the run loop for a value v of a device
\* that is open and scheduled on it.  write() blocks while the pipe is full
\* and fails, writing nothing, when fd[1] is no open write end.
input_callback(d, v) ==
    /\ Alive
    /\ mpc = "run"
    /\ ~stopped
    /\ dstate[d] = "attached"
    /\ Handle(d, cyc) \in seized \cap scheduled
    /\ Len(delivered) < MaxEvents
    /\ delivered' = Append(delivered, v)
    /\ IF fdtab[fd[2]] # "pipe_w"
       THEN UNCHANGED <<pipe, pending, mpc>>
       ELSE IF Len(pipe) < PipeCap
       THEN /\ pipe' = Append(pipe, v)
            /\ UNCHANGED <<pending, mpc>>
       ELSE /\ pending' = <<v>>
            /\ mpc' = "write_blocked"
            /\ UNCHANGED pipe
    /\ UNCHANGED <<sendVars, progVars, callerVars, consumerVars, cyc, mprod,
                   stopped, sinkVars, fdtab, dstate, matchedArmed, termArmed,
                   matchedPending, termPending, seized, scheduled, openFailed,
                   closeCalled, reported, iterated, received>>

InputCallback == \E d \in Devs : \E v \in InputValues : input_callback(d, v)

\* the blocked write() of input_callback completes once the pipe has room
WriteUnblock ==
    /\ Alive
    /\ mpc = "write_blocked"
    /\ Len(pipe) < PipeCap
    /\ pipe' = Append(pipe, pending[1])
    /\ pending' = <<>>
    /\ mpc' = "run"
    /\ UNCHANGED <<sendVars, progVars, callerVars, consumerVars, cyc, mprod,
                   stopped, sinkVars, fdtab, dstate, matchedArmed, termArmed,
                   matchedPending, termPending, seized, scheduled, histVars>>

\* lines 236-243: CFRunLoopRun returns once the loop was stopped, and
\* IOHIDDeviceClose is called on every handle of source_device
MonExit ==
    /\ Alive
    /\ mpc = "run"
    /\ stopped
    /\ closeCalled' = closeCalled \cup Registered
    /\ seized' = seized \ Registered
    /\ mpc' = "done"
    /\ UNCHANGED <<sendVars, progVars, callerVars, consumerVars, cyc, mprod,
                   stopped, pending, sinkVars, fdtab, pipe, dstate, matchedArmed,
                   termArmed, matchedPending, termPending, scheduled, openFailed,
                   reported, iterated, delivered, received>>

(***************************************************************************)
(* The operating system: a keyboard attaches or is removed.  A             *)
(* notification that is armed queues the device for its callback.  While   *)
(* no monitor thread exists nothing observes the devices: what happens to  *)
(* them then is taken when the next thread has started, before it          *)
(* enumerates.                                                             *)
(***************************************************************************)
Attach(d) ==
    /\ Alive
    /\ mpc # "done"
    /\ dstate[d] = "absent"
    /\ dstate' = [dstate EXCEPT ![d] = "attached"]
    /\ matchedPending' = IF matchedArmed THEN matchedPending \cup {d} ELSE matchedPending
    /\ UNCHANGED <<sendVars, progVars, callerVars, consumerVars, monVars,
                   sinkVars, fdtab, pipe, matchedArmed, termArmed, termPending,
                   seized, scheduled, histVars>>

Terminate(d) ==
    /\ Alive
    /\ mpc # "done"
    /\ dstate[d] = "attached"
    /\ dstate' = [dstate EXCEPT ![d] = "terminated"]
    /\ termPending' = IF termArmed THEN termPending \cup {d} ELSE termPending
    /\ UNCHANGED <<sendVars, progVars, callerVars, consumerVars, monVars,
                   sinkVars, fdtab, pipe, matchedArmed, termArmed, matchedPending,
                   seized, scheduled, histVars>>

HotPlug == \E d \in Devs : Attach(d) \/ Terminate(d)

\* the devices of S alone attach and are removed
Plug(S) == \E d \in S : Attach(d) \/ Terminate(d)

(***************************************************************************)
(* grab_kb(product), lines 255-312, on the caller thread.  The tuple fd    *)
(* is indexed from 1: fd[1] is the code's fd[0] (read end), fd[2] its      *)
(* fd[1] (write end).                                                      *)
(***************************************************************************)
FreeFds == {n \in FdNums : fdtab[n] = "free"}
Lowest(S) == CHOOSE n \in S : \A m \in S : n <= m

\* the value of the pointer prod as the new thread reads it: a freed string
\* reads as its old contents or as anything else
ProdReadings ==
    IF prod.st = "null" THEN {NULL}
    ELSE IF prod.st = "valid" THEN {prod.str}
    ELSE {prod.str, Garbage}

SinkResult(ret, stage, conn, svc, failed) ==
    [ret |-> ret, stage |-> stage, connect |-> conn, service |-> svc,
     failed |-> failed]

\* a slip in grab_kb: the result of the first initialization is not tested
sink_half_initUntested(found, krOpen, krInit, krReady, krLocale) ==
    LET initFailed == IF krInit # KERN_SUCCESS THEN {"init"} ELSE {} IN
    IF ~found THEN SinkResult(1, "service", 0, 0, {"service"})
    ELSE IF krOpen # KERN_SUCCESS THEN SinkResult(krOpen, "open", 0, 1, {"open"})
    ELSE IF krReady # KERN_SUCCESS
    THEN SinkResult(krReady, "ready", 1, 1, initFailed \cup {"ready"})
    ELSE IF krLocale # KERN_SUCCESS
    THEN SinkResult(krLocale, "init_locale", 1, 1, initFailed \cup {"init_locale"})
    ELSE SinkResult(0, "done", 1, 1, initFailed)

\* the sink half of grab_kb, lines 268-311: found is whether
\* IOServiceGetMatchingService returns a service, krOpen what IOServiceOpen
\* returns, krInit and krLocale what the two initialize_virtual_hid_keyboard
\* calls return, krReady what the readiness polls come to (an error, or
\* KERN_SUCCESS with ready set).  The result is the return value, the step
\* that decided it, the connection and service left in the globals, and the
\* steps that failed.
sink_half(found, krOpen, krInit, krReady, krLocale) ==
    IF ~found THEN SinkResult(1, "service", 0, 0, {"service"})
    ELSE IF krOpen # KERN_SUCCESS THEN SinkResult(krOpen, "open", 0, 1, {"open"})
    ELSE IF krInit # KERN_SUCCESS THEN SinkResult(1, "init", 1, 1, {"init"})
    ELSE IF krReady # KERN_SUCCESS THEN SinkResult(krReady, "ready", 1, 1, {"ready"})
    ELSE IF krLocale # KERN_SUCCESS
    THEN SinkResult(krLocale, "init_locale", 1, 1, {"init_locale"})
    ELSE SinkResult(0, "done", 1, 1, {})

\* what the sink half of grab_kb can come to
SinkOutcomes ==
    LET KR == {KERN_SUCCESS, KERN_FAILURE} IN
    {sink_half(found, krOpen, krInit, krReady, krLocale) :
        found \in BOOLEAN, krOpen \in KR, krInit \in KR, krReady \in KR,
        krLocale \in KR}
\* the sink is found, opens, initializes and reports ready
SinkReady ==
    sink_half(TRUE, KERN_SUCCESS, KERN_SUCCESS, KERN_SUCCESS, KERN_SUCCESS)
\* the virtual HID service is not loaded
SinkNotFound ==
    sink_half(FALSE, KERN_SUCCESS, KERN_SUCCESS, KERN_SUCCESS, KERN_SUCCESS)

\* grab_kb(product), with o what its sink half comes to.  Assigning to a
\* joinable std::thread terminates the process, so grab_kb is called only
\* when no thread is joinable.  The sink half shares no data with the monitor
\* thread and is taken in the same step as the spawn; a readiness poll that
\* finds the driver not ready changes nothing and is repeated after 100 ms.
grab_kb(product, o) ==
    /\ cpc = "idle"
    /\ ~thread
    /\ \/ \* line 257: pipe() fails, return errno
          /\ callRet' = Returned("grab", EMFILE, "pipe", {"pipe"})
          /\ UNCHANGED <<progVars, cpc, consumerVars, monVars, sinkVars, osVars,
                         histVars>>
       \/ \* lines 257-265: the pipe, the copy of the filter, the thread
          /\ Cardinality(FreeFds) >= 2
          /\ LET r == Lowest(FreeFds)
                 w == Lowest(FreeFds \ {r})
             IN /\ fd' = <<r, w>>
                /\ fdtab' = [fdtab EXCEPT ![r] = "pipe_r", ![w] = "pipe_w"]
          /\ pipe' = <<>>
          /\ prod' = IF product # NULL THEN [st |-> "valid", str |-> product] ELSE prod
          /\ thread' = TRUE
          /\ cyc' = cyc + 1
          /\ mpc' = "start"
          /\ \E p \in (IF product # NULL THEN {product} ELSE ProdReadings) : mprod' = p
          /\ stopped' = FALSE
          /\ pending' = <<>>
          /\ matchedArmed' = FALSE
          /\ termArmed' = FALSE
          /\ matchedPending' = {}
          /\ termPending' = {}
          /\ iterated' = {}
          /\ delivered' = <<>>
          /\ received' = <<>>
          \* lines 268-311: the sink
          /\ connect' = o.connect
          /\ service' = o.service
          /\ connOpen' = (o.connect # 0)
          /\ svcHeld' = (o.service # 0)
          /\ callRet' = Returned("grab", o.ret, o.stage, o.failed)
          /\ UNCHANGED <<listener_loop, source_device, cpc, consumerVars, dstate,
                         seized, scheduled, openFailed, closeCalled, reported>>
    /\ UNCHANGED sendVars

(***************************************************************************)
(* release_kb(), lines 318-360, on the caller thread.                      *)
(***************************************************************************)
\* close(n) on the descriptor table t
CloseFd(t, n) == IF t[n] = "free" THEN t ELSE [t EXCEPT ![n] = "free"]

\* a slip in release_kb: a reset that fails ends the teardown, return 1
ReleaseRest_resetAborts ==
    LET tab1 == CloseFd(fdtab, fd[1])
        tab2 == CloseFd(tab1, fd[2])
        closeFail == (IF fdtab[fd[1]] = "free" THEN {"close_read"} ELSE {})
                     \cup (IF tab1[fd[2]] = "free" THEN {"close_write"} ELSE {})
        pipeClosed == \E n \in {fd[1], fd[2]} : fdtab[n] \in {"pipe_r", "pipe_w"}
    IN
    \/ /\ prod.st = "freed"
       /\ cpc' = "crashed"
       /\ UNCHANGED <<prod, fdtab, pipe, kpc, connOpen, svcHeld, callRet>>
    \/ /\ prod' = IF prod.st = "null" THEN prod ELSE [prod EXCEPT !.st = "freed"]
       /\ fdtab' = tab2
       /\ pipe' = IF pipeClosed THEN <<>> ELSE pipe
       /\ kpc' = IF kpc = "reading" /\ pipeClosed THEN "woken" ELSE kpc
       /\ \E resetOk \in (IF connOpen THEN BOOLEAN ELSE {FALSE}) :
          \E closeOk \in (IF connOpen THEN BOOLEAN ELSE {FALSE}) :
             LET relOk == svcHeld
                 failed == IF ~resetOk THEN closeFail \cup {"reset"}
                           ELSE closeFail
                                \cup (IF connect # 0 /\ ~closeOk THEN {"close_connect"} ELSE {})
                                \cup (IF service # 0 /\ ~relOk THEN {"release_service"} ELSE {})
             IN /\ connOpen' = IF resetOk /\ connect # 0 /\ closeOk THEN FALSE ELSE connOpen
                /\ svcHeld' = IF resetOk /\ service # 0 THEN FALSE ELSE svcHeld
                /\ callRet' = Returned("release", IF failed = {} THEN 0 ELSE 1,
                                       "done", failed)
       /\ cpc' = "idle"

\* lines 328-359, after the join.  free() of a string already freed has no
\* defined outcome: the call returns or the process dies.
ReleaseRest ==
    LET tab1 == CloseFd(fdtab, fd[1])
        tab2 == CloseFd(tab1, fd[2])
        closeFail == (IF fdtab[fd[1]] = "free" THEN {"close_read"} ELSE {})
                     \cup (IF tab1[fd[2]] = "free" THEN {"close_write"} ELSE {})
        pipeClosed == \E n \in {fd[1], fd[2]} : fdtab[n] \in {"pipe_r", "pipe_w"}
    IN
    \/ /\ prod.st = "freed"
       /\ cpc' = "crashed"
       /\ UNCHANGED <<prod, fdtab, pipe, kpc, connOpen, svcHeld, callRet>>
    \/ /\ prod' = IF prod.st = "null" THEN prod ELSE [prod EXCEPT !.st = "freed"]
       /\ fdtab' = tab2
       /\ pipe' = IF pipeClosed THEN <<>> ELSE pipe
       /\ kpc' = IF kpc = "reading" /\ pipeClosed THEN "woken" ELSE kpc
       /\ \E resetOk \in (IF connOpen THEN BOOLEAN ELSE {FALSE}) :
          \E closeOk \in (IF connOpen THEN BOOLEAN ELSE {FALSE}) :
             LET relOk == svcHeld
                 failed == closeFail
                           \cup (IF resetOk THEN {} ELSE {"reset"})
                           \cup (IF connect # 0 /\ ~closeOk THEN {"close_connect"} ELSE {})
                           \cup (IF service # 0 /\ ~relOk THEN {"release_service"} ELSE {})
             IN /\ connOpen' = IF connect # 0 /\ closeOk THEN FALSE ELSE connOpen
                /\ svcHeld' = IF service # 0 THEN FALSE ELSE svcHeld
                /\ callRet' = Returned("release", IF failed = {} THEN 0 ELSE 1,
                                       "done", failed)
       /\ cpc' = "idle"

\* CFRunLoopStop(rl), line 323.  It stops a loop that is running and does
\* nothing to one that is not; with rl NULL or the loop of a thread that has
\* ended it has no defined outcome: nothing happens or the process dies.
CFRunLoopStop(rl) ==
    IF rl = cyc /\ mpc \in {"run", "write_blocked"}
    THEN stopped' = TRUE /\ cpc' = "join"
    ELSE IF rl = cyc /\ mpc # "done"
    THEN stopped' = stopped /\ cpc' = "join"
    ELSE /\ stopped' = stopped
         /\ cpc' \in {"join", "crashed"}

\* a slip in release_kb: the loop is stopped and the thread is not joined
\* before the rest of the teardown
ReleaseStart_noJoin ==
    /\ cpc = "idle"
    /\ ReleaseRest
    /\ stopped' = IF thread /\ listener_loop = cyc /\ mpc \in {"run", "write_blocked"}
                  THEN TRUE ELSE stopped
    /\ UNCHANGED <<sendVars, connect, service, thread, listener_loop,
                   source_device, fd, lastWait, cyc, mpc, mprod, pending, dstate,
                   matchedArmed, termArmed, matchedPending, termPending, seized,
                   scheduled, histVars>>

\* lines 319-327 and, with no joinable thread, the rest of release_kb
ReleaseStart ==
    /\ cpc = "idle"
    /\ IF thread
       THEN /\ CFRunLoopStop(listener_loop)
            /\ UNCHANGED <<prod, fdtab, pipe, kpc, connOpen, svcHeld, callRet>>
       ELSE /\ ReleaseRest
            /\ UNCHANGED stopped
    /\ UNCHANGED <<sendVars, connect, service, thread, listener_loop,
                   source_device, fd, lastWait, cyc, mpc, mprod, pending, dstate,
                   matchedArmed, termArmed, matchedPending, termPending, seized,
                   scheduled, histVars>>

\* a slip in release_kb: the registry is cleared after the join
ReleaseJoin_clearsRegistry ==
    /\ cpc = "join"
    /\ mpc = "done"
    /\ thread' = FALSE
    /\ ReleaseRest
    /\ source_device' = <<>>
    /\ UNCHANGED <<sendVars, connect, service, listener_loop, fd,
                   lastWait, monVars, dstate, matchedArmed, termArmed,
                   matchedPending, termPending, seized, scheduled, histVars>>

\* thread.join() returns once monitor_kb has returned; then lines 328-359
ReleaseJoin ==
    /\ cpc = "join"
    /\ mpc = "done"
    /\ thread' = FALSE
    /\ ReleaseRest
    /\ UNCHANGED <<sendVars, connect, service, listener_loop, source_device, fd,
                   lastWait, monVars, dstate, matchedArmed, termArmed,
                   matchedPending, termPending, seized, scheduled, histVars>>

(***************************************************************************)
(* wait_key(e), lines 173-175, called by the consumer once fd[0] is a      *)
(* descriptor of the program's own (a pipe end, open or closed).           *)
(***************************************************************************)
\* a slip in wait_key: any read that is not an error counts as an event
wait_key_result_nonneg(n) == n >= 0

\* line 174: the comparison of read()'s count with the record size
wait_key_result(n) == (n = SizeofKeyEvent)

\* read() has a full record to return
WaitKeyRead ==
    /\ Alive
    /\ kpc \in {"idle", "reading"}
    /\ fdtab[fd[1]] = "pipe_r"
    /\ pipe # <<>>
    /\ lastWait' = [n |-> SizeofKeyEvent, ret |-> wait_key_result(SizeofKeyEvent)]
    /\ pipe' = Tail(pipe)
    /\ received' = Append(received, Head(pipe))
    /\ kpc' = "idle"
    /\ UNCHANGED <<sendVars, progVars, callerVars, monVars, sinkVars, fdtab,
                   dstate, matchedArmed, termArmed, matchedPending, termPending,
                   seized, scheduled, openFailed, closeCalled, reported, iterated,
                   delivered>>

\* read() finds the pipe empty and blocks
WaitKeyBlock ==
    /\ Alive
    /\ kpc = "idle"
    /\ fdtab[fd[1]] = "pipe_r"
    /\ pipe = <<>>
    /\ kpc' = "reading"
    /\ UNCHANGED <<sendVars, progVars, callerVars, lastWait, monVars, sinkVars,
                   osVars, histVars>>

\* read() fails: fd[0] is closed (-1), or the pipe was closed under the
\* blocked read (0 or -1)
WaitKeyFail ==
    /\ Alive
    /\ \/ kpc = "idle" /\ fdtab[fd[1]] = "free"
       \/ kpc = "woken"
    /\ \E n \in (IF kpc = "woken" THEN {0, -1} ELSE {-1}) :
          lastWait' = [n |-> n, ret |-> wait_key_result(n)]
    /\ kpc' = "idle"
    /\ UNCHANGED <<sendVars, progVars, callerVars, monVars, sinkVars, osVars,
                   histVars>>

InitLife ==
    /\ connect = 0
    /\ service = 0
    /\ thread = FALSE
    /\ listener_loop = 0
    /\ source_device = <<>>
    /\ fd = <<0, 0>>
    /\ prod = [st |-> "null", str |-> NULL]
    /\ cpc = "idle"
    /\ callRet = Returned("none", 0, "none", {})
    /\ kpc = "idle"
    /\ lastWait = [n |-> 0, ret |-> FALSE]
    /\ cyc = 0
    /\ mpc = "done"
    /\ mprod = NULL
    /\ stopped = FALSE
    /\ pending = <<>>
    /\ fdtab = [n \in FdNums |-> IF n <= 2 THEN "std" ELSE "free"]
    /\ pipe = <<>>
    /\ dstate \in [Devs -> {"absent", "attached"}]
    /\ matchedArmed = FALSE
    /\ termArmed = FALSE
    /\ matchedPending = {}
    /\ termPending = {}
    /\ seized = {}
    /\ scheduled = {}
    /\ connOpen = FALSE
    /\ svcHeld = FALSE
    /\ openFailed = {}
    /\ closeCalled = {}
    /\ reported = {}
    /\ iterated = {}
    /\ delivered = <<>>
    /\ received = <<>>

Init == InitSend /\ InitLife

(***************************************************************************)
(* Specifications.  A crash ends the process.  Next is the whole program   *)
(* and its environment; NextPlug and NextPipe take the inputs apart that   *)
(* do not act on one another: NextPlug has three devices come and go under *)
(* every filter while the sink works and nothing is typed, NextPipe has    *)
(* keys typed and read on the devices attached from the start, with no     *)
(* filter and the sink either working or not loaded.                       *)
(***************************************************************************)
Grab(products, outcomes) ==
    /\ cyc < MaxCycles
    /\ \E product \in products : \E o \in outcomes : grab_kb(product, o)

Regrab(products, outcomes) ==
    /\ cyc < MaxRegrabs
    /\ \E product \in products : \E o \in outcomes : grab_kb(product, o)

Next ==
    \/ Grab(Filters, SinkOutcomes)
    \/ ReleaseStart
    \/ ReleaseJoin
    \/ WaitKeyRead
    \/ WaitKeyBlock
    \/ WaitKeyFail
    \/ MonStart
    \/ MonArmMatched
    \/ MonArmTerm
    \/ matched_callback
    \/ terminated_callback
    \/ InputCallback
    \/ WriteUnblock
    \/ MonExit
    \/ HotPlug
    \/ SendKey

Spec == Init /\ [][Next]_vars

NextPlug ==
    \/ Grab(Filters, {SinkReady})
    \/ ReleaseStart
    \/ ReleaseJoin
    \/ MonStart
    \/ MonArmMatched
    \/ MonArmTerm
    \/ matched_callback
    \/ terminated_callback
    \/ MonExit
    \/ Plug({1, 2, 3})

\* there is no keyboard "B"
InitPlug == Init /\ dstate[4] = "absent"

SpecPlug == InitPlug /\ [][NextPlug]_vars

\* the keyboards "A" and "B" and the nameless keyboard come and go, without
\* the virtual keyboard, with no filter
NextTerm ==
    \/ Grab({NULL}, {SinkReady})
    \/ ReleaseStart
    \/ ReleaseJoin
    \/ MonStart
    \/ MonArmMatched
    \/ MonArmTerm
    \/ matched_callback
    \/ terminated_callback
    \/ MonExit
    \/ Plug({1, 3, 4})

InitTerm == Init /\ dstate[2] = "absent"

SpecTerm == InitTerm /\ [][NextTerm]_vars

NextPipe ==
    \/ Grab({NULL}, {SinkReady, SinkNotFound})
    \/ ReleaseStart
    \/ ReleaseJoin
    \/ WaitKeyRead
    \/ WaitKeyBlock
    \/ WaitKeyFail
    \/ MonStart
    \/ MonArmMatched
    \/ MonArmTerm
    \/ InputCallback
    \/ WriteUnblock
    \/ MonExit

\* the virtual keyboard and the nameless keyboard are attached, the keyboard
\* "A" is attached or not, there is no keyboard "B"
InitPipe ==
    Init /\ dstate[2] = "attached" /\ dstate[3] = "attached" /\ dstate[4] = "absent"

SpecPipe == InitPipe /\ [][NextPipe]_vars

\* the consumer's read() returns when it can, and so does a blocked write()
SpecPipeFair ==
    SpecPipe /\ WF_vars(WaitKeyRead) /\ WF_vars(WaitKeyFail) /\ WF_vars(WriteUnblock)

\* the sink: every filter, whatever the sink does, nothing plugged or typed
NextSink ==
    \/ Grab(Filters, SinkOutcomes)
    \/ ReleaseStart
    \/ ReleaseJoin
    \/ MonStart
    \/ MonArmMatched
    \/ MonArmTerm
    \/ MonExit

SpecSink == InitPipe /\ [][NextSink]_vars

\* the monitor thread runs on when it can, and join() returns once it ended
SpecSinkFair ==
    /\ SpecSink
    /\ WF_vars(MonStart) /\ WF_vars(MonArmMatched) /\ WF_vars(MonArmTerm)
    /\ WF_vars(MonExit) /\ WF_vars(ReleaseJoin)

\* the caller thread sends keys between grab and release while the monitor
\* thread starts, runs and ends and the keyboard "A" comes and goes
NextKeys ==
    \/ Grab({NULL}, {SinkReady})
    \/ ReleaseStart
    \/ ReleaseJoin
    \/ Send(InputValues)
    \/ MonStart
    \/ MonArmMatched
    \/ MonArmTerm
    \/ matched_callback
    \/ terminated_callback
    \/ MonExit
    \/ Plug({1})

SpecKeys == InitPipe /\ [][NextKeys]_vars

\* grab and release follow one another under every filter, the sink working,
\* nothing plugged or typed
NextFilter ==
    \/ Regrab(Filters, {SinkReady})
    \/ ReleaseStart
    \/ ReleaseJoin
    \/ MonStart
    \/ MonArmMatched
    \/ MonArmTerm
    \/ MonExit

SpecFilter == InitPipe /\ [][NextFilter]_vars

NextSend == SendKey

\* send_key reads no device: all three are attached
InitAttached == Init /\ \A d \in Devs : dstate[d] = "attached"

SpecSend == InitAttached /\ [][NextSend]_vars

(***************************************************************************)
(* Claims about send_key, checked under SpecSend.                          *)
(***************************************************************************)
\* the last send_key call carried a valid type and a page of one of the four categories
Accepted ==
    /\ nsend > 0
    /\ lastSend.e.type \in {0, 1}
    /\ lastSend.e.page \in RecognizedPages

\* the last send_key call carried an invalid type or an unknown page
Rejected ==
    /\ nsend > 0
    /\ \/ lastSend.e.type \notin {0, 1}
       \/ lastSend.e.page \notin RecognizedPages

\* C1 as stated: every send_key call with type in {0,1} and a recognized page
\* returns 0 and leaves the category's set equal to the previous set with usage
\* inserted (type 1) or erased (type 0), also when the sink post fails.
C1_ReturnsZero ==
    Accepted =>
        LET c == CategoryOf(lastSend.e.page) IN
        /\ lastSend.ret = 0
        /\ keys[c] = IF lastSend.e.type = 1
                     THEN lastSend.pre[c] \cup {lastSend.e.usage}
                     ELSE lastSend.pre[c] \ {lastSend.e.usage}

\* C1 amended: every send_key call with type in {0,1} and a recognized page posts
\* the category's report and returns the status of that post (0 exactly when the
\* post succeeded), and the category's set equals the previous set with usage
\* inserted (type 1) or erased (type 0), also when the post fails.
C1_ReturnsPostStatus ==
    Accepted =>
        LET c == CategoryOf(lastSend.e.page) IN
        /\ lastSend.posted
        /\ lastSend.ret = lastSend.status
        /\ keys[c] = IF lastSend.e.type = 1
                     THEN lastSend.pre[c] \cup {lastSend.e.usage}
                     ELSE lastSend.pre[c] \ {lastSend.e.usage}

\* a key-up was accepted while another usage of the category was held, and the post failed
C1_Witness ==
    /\ Accepted
    /\ lastSend.e.type = 0
    /\ lastSend.status = KERN_FAILURE
    /\ lastSend.e.usage \in lastSend.pre[CategoryOf(lastSend.e.page)]
    /\ keys[CategoryOf(lastSend.e.page)] # {}

\* C2: a send_key call with a type outside {0,1} or with an unrecognized page
\* returns non-zero, leaves all four key sets as they were and posts no report.
C2_RejectedNoEffect ==
    Rejected =>
        /\ lastSend.ret # 0
        /\ keys = lastSend.pre
        /\ ~lastSend.posted
        /\ lastSend.report = NoReport

\* an invalid type was rejected for a recognized page whose set holds that usage
C2_Witness ==
    /\ Rejected
    /\ lastSend.e.type = 2
    /\ lastSend.e.page \in RecognizedPages
    /\ lastSend.e.usage \in keys[CategoryOf(lastSend.e.page)]

\* C3: send_key is idempotent per event: a send_key call that repeats the down
\* event of the call before it leaves the key sets as that call left them, and an
\* up event for a usage that is not in the set leaves the sets unchanged, still
\* posts the (unchanged) report and returns the status of the post.
C3_Idempotent ==
    [][/\ (/\ nsend > 0
           /\ nsend' = nsend + 1
           /\ lastSend'.e = lastSend.e
           /\ lastSend.e.type = 1
           /\ lastSend.e.page \in RecognizedPages)
          => keys' = keys
       /\ (/\ nsend' = nsend + 1
           /\ lastSend'.e.type = 0
           /\ lastSend'.e.page \in RecognizedPages
           /\ lastSend'.e.usage \notin keys[CategoryOf(lastSend'.e.page)])
          => /\ keys' = keys
             /\ lastSend'.posted
             /\ lastSend'.report = [category |-> CategoryOf(lastSend'.e.page),
                                    keys |-> keys[CategoryOf(lastSend'.e.page)]]
             /\ lastSend'.ret = lastSend'.status
      ]_vars

\* a down event was sent for a usage already held, and the set is as before;
\* the post of that call succeeded
C3_Witness ==
    /\ Accepted
    /\ nsend >= 2
    /\ lastSend.e.type = 1
    /\ lastSend.e.usage \in lastSend.pre[CategoryOf(lastSend.e.page)]
    /\ keys = lastSend.pre
    /\ lastSend.ret = KERN_SUCCESS

(***************************************************************************)
(* Claims about the device matcher and the hot-plug notifier, checked      *)
(* under SpecPlug.                                                         *)
(***************************************************************************)
\* the run loop of the monitor thread runs and has nothing left to deliver
LoopIdle ==
    /\ mpc = "run"
    /\ ~stopped
    /\ matchedPending = {}
    /\ termPending = {}

\* the matcher accepts device d under the filter of this cycle
Accepts(d) == DevName(d) # NoName /\ Match(mprod, DevName(d))

\* a handle was created for device d in this cycle: it went into
\* source_device, IOHIDDeviceOpen was tried on it and it was scheduled
Opened(d) == Handle(d, cyc) \in scheduled

\* C6: a keyboard that is attached, whenever it attached, and that passes the
\* matcher is in the registry once the monitor thread's run loop has nothing
\* left to deliver: no attach is missed, wherever it falls in the thread's startup.
C6_AttachedIsRegistered ==
    LoopIdle => \A d \in Attached : Accepts(d) => d \in DOMAIN source_device

\* C7: the registry holds no entry for a device that a 'terminated' iterator
\* has handed to the program.
C7_NoReportedInRegistry ==
    (DOMAIN source_device) \cap reported = {}

\* C8: when release has returned, IOHIDDeviceClose has been called on every
\* handle that is in the registry.
C8_ClosedAtRelease ==
    (callRet.op = "release" /\ cpc = "idle") => Registered \subseteq closeCalled

\* C9: a handle whose IOHIDDeviceOpen failed is neither in the registry nor
\* scheduled with the run loop.
C9_FailedOpenSkipped ==
    \A h \in openFailed : h \notin Registered /\ h \notin scheduled

PipeOpen == fdtab[fd[1]] = "pipe_r"

\* this step is a return of wait_key
WaitKeyReturns ==
    /\ kpc' = "idle"
    /\ \/ kpc # "idle"
       \/ lastWait' # lastWait
       \/ Len(received') = Len(received) + 1

\* C4: while the pipe of a grab is open, the records handed to input_callback
\* are, in order, those wait_key has returned, then those in the pipe, then the
\* one being written: none is lost, doubled or reordered; and as long as the
\* pipe stays open, the consumer reading on, the n-th record handed to
\* input_callback is returned by wait_key.
C4_RoundTrip ==
    /\ [](PipeOpen => delivered = received \o pipe \o pending)
    /\ \A n \in 1..MaxEvents :
          (PipeOpen /\ Len(delivered) >= n)
              ~> (Len(received) >= n \/ ~PipeOpen \/ ~Alive)

\* grab returned 0, three values were delivered, key down then key up were
\* returned by wait_key in that order and the third is in the pipe
C4_Witness ==
    /\ callRet.op = "grab"
    /\ callRet.ret = 0
    /\ Len(delivered) = 3
    /\ Len(received) = 2
    /\ received[1].type = 1
    /\ received[2].type = 0
    /\ pipe = <<delivered[3]>>

\* C5: wait_key returns true exactly when it took a full record from the pipe,
\* and false whenever release has closed the pipe; a wait_key blocked in read()
\* is no longer blocked when release has returned, and then returns, false.
C5_WaitKeyAfterRelease ==
    /\ [][WaitKeyReturns =>
            /\ lastWait'.ret <=> /\ PipeOpen
                                 /\ pipe # <<>>
                                 /\ lastWait'.n = SizeofKeyEvent
                                 /\ received' = Append(received, Head(pipe))
                                 /\ pipe' = Tail(pipe)
            /\ ~PipeOpen => ~lastWait'.ret
            /\ kpc = "woken" => ~lastWait'.ret]_vars
    /\ []((callRet.op = "release" /\ cpc = "idle") => kpc # "reading")
    /\ (kpc = "woken") ~> (kpc = "idle" \/ ~Alive)

\* wait_key had returned a record and was blocked in read() again when release
\* closed the pipe; release has returned, read() returned 0 and wait_key false
C5_Witness ==
    /\ callRet.op = "release"
    /\ cpc = "idle"
    /\ Len(received) >= 1
    /\ kpc = "idle"
    /\ lastWait.n = 0
    /\ ~lastWait.ret
    /\ ~PipeOpen

(***************************************************************************)
(* Claims about grab_kb and release_kb, checked under SpecSink.            *)
(***************************************************************************)
\* release_kb has returned and nothing was called since
ReleaseReturned == callRet.op = "release" /\ cpc = "idle"

\* the steps of release_kb whose result is tested
ReleaseSteps == {"close_read", "close_write", "reset", "close_connect",
                 "release_service"}

\* C11: release is best-effort: whenever release has returned, every teardown
\* step was taken whatever became of the steps before it (the thread is joined,
\* the filter is not left allocated, both descriptors of fd are closed, the
\* service reference is dropped, and the connection is open only if closing it
\* failed), and the return value is non-zero exactly when one of the tested
\* steps failed; that no thread was running is not among the failures.
C11_BestEffort ==
    ReleaseReturned =>
        /\ callRet.failed \subseteq ReleaseSteps
        /\ callRet.ret # 0 <=> callRet.failed # {}
        /\ ~thread
        /\ prod.st # "valid"
        /\ fdtab[fd[1]] = "free"
        /\ fdtab[fd[2]] = "free"
        /\ ~svcHeld
        /\ connOpen => "close_connect" \in callRet.failed

\* after a grab that returned 0, release returned non-zero because the reset
\* alone failed: the connection was closed and the service released all the same
C11_Witness ==
    /\ ReleaseReturned
    /\ cyc = 1
    /\ callRet.ret # 0
    /\ callRet.failed = {"reset"}
    /\ prod.st = "freed"
    /\ ~connOpen
    /\ ~svcHeld
    /\ connect # 0

\* C12: release always terminates: a release that has stopped the event loop
\* and waits in thread.join() gets out of the join, wherever the monitor thread
\* was in its startup when the loop was stopped.
C12_ReleaseTerminates ==
    (cpc = "join") ~> (cpc # "join")

\* grab_kb has returned, and release_kb has neither returned nor ended the
\* process since
GrabReturned == callRet.op = "grab" /\ Alive

\* C13: grab returns 0 only if no step of it failed: the pipe was created, the
\* monitor thread spawned, the sink service found, the connection opened, both
\* initializations succeeded and the driver reported ready; it returns non-zero
\* when the pipe cannot be created, the service is not found, the connection
\* cannot be opened, an initialization fails or a readiness check returns an
\* error; and a grab that fails at the pipe spawns no monitor thread.
C13_GrabStatus ==
    /\ [](GrabReturned =>
            /\ callRet.ret = 0 =>
                  /\ callRet.failed = {}
                  /\ callRet.stage = "done"
                  /\ fdtab[fd[1]] = "pipe_r"
                  /\ fdtab[fd[2]] = "pipe_w"
                  /\ thread
                  /\ service # 0 /\ svcHeld
                  /\ connect # 0 /\ connOpen
            /\ callRet.failed # {} => callRet.ret # 0)
    /\ [][(callRet'.op = "grab" /\ "pipe" \in callRet'.failed /\ cpc = "idle")
             => UNCHANGED <<thread, cyc, mpc, fd, fdtab>>]_vars

\* grab returned non-zero because the second initialization failed, with the
\* monitor thread running, the pipe made and the connection open
C13_Witness ==
    /\ GrabReturned
    /\ callRet.ret # 0
    /\ callRet.failed = {"init_locale"}
    /\ thread
    /\ connOpen
    /\ fdtab[fd[1]] = "pipe_r"

(***************************************************************************)
(* Claims about the two threads and the key sets across a grab/release     *)
(* cycle, checked under SpecKeys.                                          *)
(***************************************************************************)
\* C14: thread confinement: a step that changes the device registry is a step
\* of the monitor thread (in its startup or in its run loop) and leaves the
\* caller thread and the key sets where they are; handles are closed by the
\* monitor thread alone; and a step that changes a key set is a send_key call
\* of the caller thread and leaves the monitor thread and the registry where
\* they are.
C14_ThreadConfinement ==
    [][/\ source_device' # source_device
             => /\ thread
                /\ mpc \in {"start", "run"}
                /\ UNCHANGED <<callerVars, sendVars>>
       /\ closeCalled' # closeCalled
             => /\ thread
                /\ mpc = "run"
                /\ UNCHANGED <<callerVars, sendVars, source_device>>
       /\ keys' # keys
             => /\ cpc = "idle"
                /\ nsend' = nsend + 1
                /\ UNCHANGED <<monVars, source_device, closeCalled, seized, scheduled>>
      ]_vars

\* the caller thread has put a key into the keyboard set, the monitor thread
\* has registered the keyboard "A" reported by a 'matched' notification, and
\* its loop is running
C14_Witness ==
    /\ keys["keyboard"] = {1}
    /\ lastSend.ret = KERN_SUCCESS
    /\ mpc = "run"
    /\ ~stopped
    /\ 1 \in DOMAIN source_device
    /\ source_device[1] = Handle(1, cyc)
    /\ dstate[2] = "attached"
    /\ cpc = "idle"

(***************************************************************************)
(* Claims about terminated_callback, checked under SpecTerm.               *)
(***************************************************************************)
\* this step is a run of terminated_callback: the run loop hands over the
\* 'terminated' iterator
TerminatedDelivered ==
    /\ mpc = "run"
    /\ termPending # {}
    /\ termPending' = {}

\* C15: a terminated notification removes exactly the terminated identifiers
\* from the registry: the entries of all other devices, key and handle, are as
\* before, an identifier that is not in the registry changes nothing, and the
\* program goes on.
C15_ErasesExactlyTerminated ==
    [][TerminatedDelivered =>
          /\ DOMAIN source_device' = (DOMAIN source_device) \ termPending
          /\ \A d \in DOMAIN source_device' : source_device'[d] = source_device[d]
          /\ (termPending \cap DOMAIN source_device = {})
                => source_device' = source_device
          /\ Alive'
          /\ mpc' = "run"
      ]_vars

\* the keyboards "A" and "B" were both registered in this cycle; "A" and the
\* nameless keyboard, which never was in the registry, were then removed and
\* reported, and the entry of "B" is as it was
C15_Witness ==
    /\ mpc = "run"
    /\ termPending = {}
    /\ {Handle(1, cyc), Handle(4, cyc)} \subseteq scheduled
    /\ {1, 3} \subseteq reported
    /\ DOMAIN source_device = {4}
    /\ source_device[4] = Handle(4, cyc)

(***************************************************************************)
(* More claims about send_key, checked under SpecSend.                     *)
(***************************************************************************)
\* C16: category independence: each page resolves to at most one of the four
\* categories; a send_key call leaves the key sets of all the other categories
\* as they were, and the report it posts, if any, is of the resolved category
\* and holds that category's whole key set as the call left it.
C16_CategoryIndependence ==
    /\ \A p \in Pages : Cardinality({c \in Categories : CategoryOf(p) = c}) <= 1
    /\ nsend > 0 =>
          LET c == CategoryOf(lastSend.e.page) IN
          /\ \A k \in Categories : k # c => keys[k] = lastSend.pre[k]
          /\ lastSend.posted
                => lastSend.report = [category |-> c, keys |-> keys[c]]
          /\ ~lastSend.posted => lastSend.report = NoReport

\* a key of the consumer page went down while a key of the keyboard page and
\* another key of the consumer page were held: the report is the consumer set,
\* two keys, and the keyboard set is as before
C16_Witness ==
    /\ nsend = 3
    /\ lastSend.e.page = "consumer"
    /\ lastSend.e.type = 1
    /\ lastSend.posted
    /\ keys["keyboard"] # {}
    /\ keys["keyboard"] = lastSend.pre["keyboard"]
    /\ Cardinality(keys["consumer"]) = 2
    /\ lastSend.report = [category |-> "consumer", keys |-> keys["consumer"]]

(***************************************************************************)
(* Claims about the key sets across grab and release, checked under        *)
(* SpecKeys.                                                               *)
(***************************************************************************)
\* this step is a return of release_kb
ReleaseReturns ==
    /\ cpc \in {"idle", "join"}
    /\ cpc' = "idle"
    /\ callRet'.op = "release"
    /\ cpc = "join" \/ fdtab' # fdtab \/ callRet' # callRet

\* this step is a grab_kb call that spawns the monitor thread
GrabSpawns == cyc' = cyc + 1

\* C17: the key sets agree with the virtual device where the claim names the
\* device's state: when release returns having reset the virtual keyboard,
\* which then holds no key, all four key sets are empty, and so they are when
\* a grab that follows a release starts its cycle.
C17_KeySetsEmptyAfterReset ==
    [][/\ (ReleaseReturns /\ "reset" \notin callRet'.failed)
             => \A c \in Categories : keys'[c] = {}
       /\ (GrabSpawns /\ callRet.op = "release" /\ "reset" \notin callRet.failed)
             => \A c \in Categories : keys[c] = {}
      ]_vars

(***************************************************************************)
(* Claims about grab_kb and release_kb over several cycles, checked under  *)
(* SpecFilter.                                                             *)
(***************************************************************************)
\* C18: the product filter the monitor thread of a cycle uses is the argument
\* of that cycle's grab call, whatever filter an earlier cycle was given and
\* its release freed.  A grab is never called while prod is a live copy (the
\* release before it freed it), so the call leaves prod a live copy exactly
\* when its argument is not NULL, and that copy is the argument.
C18_FilterIsArgument ==
    [][GrabSpawns =>
          mprod' = IF prod'.st = "valid" THEN prod'.str ELSE NULL]_vars

\* this step is release_kb going through its lines 328-359, to its return or
\* to the death of the process
ReleaseTearsDown ==
    \/ cpc = "join" /\ cpc' # "join"
    \/ /\ cpc = "idle"
       /\ ~thread
       /\ \/ cpc' = "crashed"
          \/ callRet'.op = "release" /\ (callRet' # callRet \/ fdtab' # fdtab)

\* C19: release closes only what the most recent grab acquired and is still
\* open: the descriptors it closes are ends of the pipe, so that a release with
\* no pipe made before it (no grab yet, a grab that failed at the pipe, a
\* second release in a row) closes no descriptor, and it does not free a
\* filter string that was freed before.
C19_ReleaseClosesOwn ==
    [][ReleaseTearsDown =>
          /\ \A n \in FdNums :
                fdtab'[n] # fdtab[n] => fdtab[n] \in {"pipe_r", "pipe_w"}
          /\ prod.st # "freed"
      ]_vars

(***************************************************************************)
(* Claims about the order of the teardown, checked under SpecPipeFair.     *)
(***************************************************************************)
\* C20: release joins the monitor thread before it closes either end of the
\* pipe: while the monitor thread has not returned both ends are open, so
\* every record input_callback writes goes to an open write end, a step that
\* closes a descriptor finds the monitor thread ended, and device handles are
\* closed only once the event loop was stopped and delivers no more callbacks.
C20_JoinBeforeClose ==
    /\ [](mpc # "done" => fdtab[fd[1]] = "pipe_r" /\ fdtab[fd[2]] = "pipe_w")
    /\ [][/\ (delivered' # delivered /\ delivered' # <<>>)
                => fdtab[fd[2]] = "pipe_w" /\ cpc # "crashed"
          /\ (\E n \in FdNums : fdtab[n] # "free" /\ fdtab'[n] = "free")
                => mpc = "done" /\ ~thread'
          /\ (closeCalled' # closeCalled \/ seized' # seized \cup seized')
                => stopped /\ mpc = "run" /\ mpc' = "done"
         ]_vars

\* keys were typed and written to the pipe, the loop was stopped, the monitor
\* thread closed the handle of the keyboard "A" and ended, and release then
\* closed the pipe and returned 0
C20_Witness ==
    /\ ReleaseReturned
    /\ callRet.ret = 0
    /\ cyc = 1
    /\ mpc = "done"
    /\ Len(delivered) >= 2
    /\ Handle(1, 1) \in closeCalled
    /\ fdtab[fd[1]] = "free"
    /\ fdtab[fd[2]] = "free"

====
